---- MODULE Spec2Model ----
(***************************************************************************)
(* Model of the 17Track dashboard pipeline (src/main.py, src/utils.py):    *)
(*   - the batch loop of processing() with the API17Track client,          *)
(*   - the merge / status filter that builds the reconciled table,         *)
(*   - get_shipping_metrics.                                               *)
(***************************************************************************)
EXTENDS Integers, Sequences, FiniteSets, TLC

VARIABLES
    pc,                   \* position inside processing()
    data,                 \* data["tracking_number"] of the export, one entry per order row
    tracking_numbers,     \* list(set(tracking_numbers))
    idx,                  \* 1-based position of the loop over tracking_numbers[:400]
    track_data,           \* track.data of the API17Track object of the current iteration
    registered_count,
    skipped_count,
    quota_exceeded_count,
    output,               \* list of appended track.data
    calls,                \* provider calls sent so far: <<endpoint, number>>
    hist,                 \* ghost: counters at the start of the current iteration and its answers
    raised,               \* exception class that left processing(), or "none"
    frame,                \* the merged / filtered DataFrame `data` of lines 99-107
    row,                  \* get_shipping_metrics: the row handed in
    metrics               \* get_shipping_metrics: what the call produced

vars == <<pc, data, tracking_numbers, idx, track_data, registered_count,
          skipped_count, quota_exceeded_count, output, calls, hist, raised,
          frame, row, metrics>>

-----------------------------------------------------------------------------
(* Bounds *)

\* stands for the slice bound of tracking_numbers[:400], scaled down
BatchCap == 2
\* rows of the export
MaxOrders == 3

TrackingUniverse == 1..MaxOrders

-----------------------------------------------------------------------------
(* API17Track class constants *)

TRACKING_REGISTERED == -18019901
TRACKING_NEED_REGISTER == -18019902
QUOTA_LIMIT == -18019908

\* codes the provider may send that are none of the three above
OtherCodes == {-18019903}

RejectCodes == {TRACKING_REGISTERED, TRACKING_NEED_REGISTER, QUOTA_LIMIT} \cup OtherCodes

Min(a, b) == IF a <= b THEN a ELSE b

\* Python's (empty) dict given to self.data by __init__
EmptyDict == [kind |-> "empty"]

-----------------------------------------------------------------------------
(* Status texts, as sequences of characters *)

Null == [isnull |-> TRUE, text |-> <<>>]
Text(s) == [isnull |-> FALSE, text |-> s]

S_InTransit == <<"I","n","T","r","a","n","s","i","t">>
S_Delivered == <<"D","e","l","i","v","e","r","e","d">>
S_DeliveryFailure == <<"D","e","l","i","v","e","r","y","F","a","i","l","u","r","e">>
S_NotFound == <<"N","o","t","F","o","u","n","d">>
S_Exception == <<"E","x","c","e","p","t","i","o","n">>
S_exception == <<"e","x","c","e","p","t","i","o","n">>
S_ReturnedToSender == <<"_","R","e","t","u","r","n","e","d","T","o","S","e","n","d","e","r">>
S_DeliveryFailure_ReturnedToSender == S_DeliveryFailure \o S_ReturnedToSender
S_Carrier_NotFound == <<"U","P","S","_">> \o S_NotFound

\* latest_status values the provider is taken to send
StatusSamples ==
    {Null, Text(S_InTransit), Text(S_Delivered), Text(S_DeliveryFailure_ReturnedToSender),
     Text(S_Carrier_NotFound), Text(S_Exception), Text(S_exception)}

-----------------------------------------------------------------------------
(* Provider answers.  The body of the HTTP response after .json().data:    *)
(*   accepted   - `accepted` is non-empty; payload says how well formed    *)
(*                accepted[0] is                                           *)
(*   rejected   - `accepted` is empty and rejected[0].error.code = code    *)
(*   malformed  - the expected attributes are missing (or the request      *)
(*                itself failed): an exception that is not API17TrackError *)
(***************************************************************************)

AllEvents == {"InTransit", "Delivered", "InfoReceived"}

\* accepted[0] for `number`: a well formed item, an item lacking a field read by
\* the dict literal of _build_order_data, or an item with a broken event
Payloads(number, statuses, eventsets) ==
    [form : {"ok", "bad_fields", "bad_events"}, number : {number},
     latest_status : statuses, events : eventsets]

BatchPayloads(number) == Payloads(number, {Text(S_InTransit)}, {AllEvents})

Responses(number) ==
    [kind : {"accepted"}, item : BatchPayloads(number)]
      \cup [kind : {"rejected"}, code : RejectCodes]
      \cup {[kind |-> "malformed"]}

\* ghost label of an answer, as the endpoint's caller sees it: the register
\* request never reads the accepted item, a fetch reads all of it; both
\* registration codes are the one NeedsRegistration signal
Label(endpoint, resp) ==
    CASE resp.kind = "accepted" ->
            IF endpoint = "register" \/ resp.item.form = "ok"
            THEN "accepted" ELSE "malformed"
      [] resp.kind = "malformed" -> "malformed"
      [] resp.code = QUOTA_LIMIT -> "quota"
      [] resp.code \in {TRACKING_NEED_REGISTER, TRACKING_REGISTERED} -> "need_register"
      [] OTHER -> "other"

-----------------------------------------------------------------------------
(* API17Track *)

Return(v) == [tag |-> "return", value |-> v]
Raise(cls, code) == [tag |-> "raise", class |-> cls, code |-> code]

\* a _build_request that reads rejected[0] before it looks at `accepted`:
\* an accepted answer has no rejected[0]
BuildRequest_RejectedFirst(resp) ==
    CASE resp.kind = "malformed" -> Raise("AttributeError", 0)
      [] resp.kind = "accepted" -> Raise("IndexError", 0)
      [] resp.kind = "rejected" ->
            IF resp.code \in {TRACKING_REGISTERED, TRACKING_NEED_REGISTER}
            THEN Raise("Exception", 0)
            ELSE Raise("API17TrackError", resp.code)

\* _build_request: the accepted item, or the exception raised
BuildRequest(resp) ==
    CASE resp.kind = "malformed" -> Raise("AttributeError", 0)
      [] resp.kind = "accepted" -> Return(resp.item)
      [] resp.kind = "rejected" ->
            IF resp.code \in {TRACKING_REGISTERED, TRACKING_NEED_REGISTER}
            THEN Raise("Exception", 0)
            ELSE Raise("API17TrackError", resp.code)

\* the dict built by _build_order_data from a well formed item
OrderData(item) ==
    [kind |-> "record", tracking_number |-> item.number,
     latest_status |-> item.latest_status, events |-> item.events]

\* a _build_order_data that binds a local `data` instead of self.data
BuildOrderData_LocalData(item, old) ==
    CASE item.form = "ok" -> <<Return(OrderData(item)), old>>
      [] OTHER -> <<Raise("AttributeError", 0), old>>

\* _build_order_data: <<outcome, self.data afterwards>>
BuildOrderData(item, old) ==
    CASE item.form = "ok" -> <<Return(OrderData(item)), OrderData(item)>>
      [] item.form = "bad_fields" -> <<Raise("AttributeError", 0), old>>
      [] item.form = "bad_events" ->
            <<Raise("AttributeError", 0),
              [OrderData(item) EXCEPT !.events = {}]>>

\* retrieve_package_data: <<outcome, self.data afterwards>>
RetrievePackageData(resp, old) ==
    LET r == BuildRequest(resp) IN
    IF r.tag = "raise"
    THEN <<Raise("Exception", 0), old>>       \* except Exception as e: raise Exception(e)
    ELSE BuildOrderData(r.value, old)

\* the except clauses of processing()
Catches(clause, cls) ==
    \/ clause = "Exception"
    \/ clause = cls

-----------------------------------------------------------------------------
(* processing(): ingestion and the batch loop *)

Range(s) == {s[i] : i \in 1..Len(s)}

\* the possible iteration orders of list(set(xs))
Dedup(xs) ==
    {s \in [1..Cardinality(Range(xs)) -> Range(xs)] : Range(s) = Range(xs)}

Capped(s) == SubSeq(s, 1, Min(Len(s), BatchCap))

Snapshot(number) ==
    [number |-> number, registered |-> registered_count, skipped |-> skipped_count,
     quota |-> quota_exceeded_count, outlen |-> Len(output), answers |-> <<>>]

Idle == [kind |-> "idle"]

BatchInit ==
    /\ pc = "start"
    /\ data \in UNION {[1..n -> TrackingUniverse] : n \in 0..MaxOrders}
    /\ tracking_numbers = <<>>
    /\ idx = 1
    /\ track_data = EmptyDict
    /\ registered_count = 0
    /\ skipped_count = 0
    /\ quota_exceeded_count = 0
    /\ output = <<>>
    /\ calls = <<>>
    /\ hist = Snapshot(0)
    /\ raised = "none"
    /\ frame = <<>>
    /\ row = Idle
    /\ metrics = Idle

Init == BatchInit

\* lines 25-39
Ingest ==
    /\ pc = "start"
    /\ tracking_numbers' \in Dedup(data)
    /\ pc' = "loop"
    /\ UNCHANGED <<data, idx, track_data, registered_count, skipped_count,
                   quota_exceeded_count, output, calls, hist, raised, frame, row, metrics>>

\* lines 40-44 and 61: a new API17Track, the first retrieve_package_data
Fetch ==
    /\ pc = "loop"
    /\ idx <= Len(Capped(tracking_numbers))
    /\ LET number == tracking_numbers[idx] IN
       \E resp \in Responses(number) :
         LET r == RetrievePackageData(resp, EmptyDict) IN
         /\ calls' = Append(calls, <<"gettrackinfo", number>>)
         /\ hist' = [Snapshot(number) EXCEPT !.answers = <<Label("gettrackinfo", resp)>>]
         /\ track_data' = r[2]
         /\ IF r[1].tag = "return"
            THEN /\ output' = Append(output, r[2])
                 /\ idx' = idx + 1
                 /\ pc' = "loop"
            ELSE \* except Exception as e
                 /\ pc' = "register"
                 /\ UNCHANGED <<output, idx>>
    /\ UNCHANGED <<data, tracking_numbers, registered_count, skipped_count,
                   quota_exceeded_count, raised, frame, row, metrics>>

\* a line 56 that compares with the wrong class constant
QuotaHit_WrongConstant(exc) == exc.code = TRACKING_REGISTERED

\* line 56: retry_e.code.code == track.QUOTA_LIMIT
QuotaHit(exc) == exc.code = QUOTA_LIMIT

\* a handler of lines 52-59 without the skipped_count += 1 of line 58
RegisterFailed_NoSkipCount(exc) ==
    IF Catches("API17TrackError", exc.class)
    THEN /\ quota_exceeded_count' =
               IF QuotaHit(exc) THEN quota_exceeded_count + 1
               ELSE quota_exceeded_count
         /\ idx' = idx + 1
         /\ pc' = "loop"
         /\ UNCHANGED <<raised, skipped_count>>
    ELSE /\ pc' = "crashed"
         /\ raised' = exc.class
         /\ UNCHANGED <<quota_exceeded_count, skipped_count, idx>>

\* what the handler of lines 52-59 or the propagation does with an exception
\* raised inside track.register_package(number)
RegisterFailed(exc) ==
    IF Catches("API17TrackError", exc.class)
    THEN /\ quota_exceeded_count' =
               IF QuotaHit(exc) THEN quota_exceeded_count + 1
               ELSE quota_exceeded_count
         /\ skipped_count' = skipped_count + 1
         /\ idx' = idx + 1
         /\ pc' = "loop"
         /\ UNCHANGED raised
    ELSE /\ pc' = "crashed"
         /\ raised' = exc.class
         /\ UNCHANGED <<quota_exceeded_count, skipped_count, idx>>

\* lines 46-50, utils.py 60-67: the register request of register_package
Register ==
    /\ pc = "register"
    /\ LET number == tracking_numbers[idx] IN
       \E resp \in Responses(number) :
         LET r == BuildRequest(resp) IN
         /\ calls' = Append(calls, <<"register", number>>)
         /\ hist' = [hist EXCEPT !.answers = Append(@, Label("register", resp))]
         /\ IF r.tag = "return"
            THEN /\ pc' = "refetch"
                 /\ UNCHANGED <<quota_exceeded_count, skipped_count, idx, raised>>
            ELSE RegisterFailed(r)
    /\ UNCHANGED <<data, tracking_numbers, track_data, registered_count, output,
                   frame, row, metrics>>

\* utils.py 69-71, lines 51 and 61: the retrieve_package_data that ends register_package
Refetch ==
    /\ pc = "refetch"
    /\ LET number == tracking_numbers[idx] IN
       \E resp \in Responses(number) :
         LET r == RetrievePackageData(resp, track_data) IN
         /\ calls' = Append(calls, <<"gettrackinfo", number>>)
         /\ hist' = [hist EXCEPT !.answers = Append(@, Label("gettrackinfo", resp))]
         /\ track_data' = r[2]
         /\ IF r[1].tag = "return"
            THEN /\ registered_count' = registered_count + 1
                 /\ output' = Append(output, r[2])
                 /\ idx' = idx + 1
                 /\ pc' = "loop"
                 /\ UNCHANGED <<quota_exceeded_count, skipped_count, raised>>
            ELSE /\ RegisterFailed(r[1])
                 /\ UNCHANGED <<registered_count, output>>
    /\ UNCHANGED <<data, tracking_numbers, frame, row, metrics>>

\* lines 63-67: the loop is exhausted, the summary is logged
Summary ==
    /\ pc = "loop"
    /\ idx > Len(Capped(tracking_numbers))
    /\ pc' = "summary"
    /\ UNCHANGED <<data, tracking_numbers, idx, track_data, registered_count,
                   skipped_count, quota_exceeded_count, output, calls, hist, raised,
                   frame, row, metrics>>

Next ==
    \/ Ingest
    \/ Fetch
    \/ Register
    \/ Refetch
    \/ Summary

Spec == Init /\ [][Next]_vars

-----------------------------------------------------------------------------
(* processing(): the merge onto the orders and the status filter *)

\* rows of the export of the reconciliation runs
MaxReconRows == 2

ReconUniverse == 1..MaxReconRows

\* pd.merge(data, df, how="left", on="tracking_number"): every order row, once
\* per record with its tracking number, or once with missing values
RECURSIVE MergeLeft(_, _, _)
MergeLeft(orders, records, i) ==
    IF i > Len(orders) THEN <<>>
    ELSE LET hits == SelectSeq(records, LAMBDA r : r.tracking_number = orders[i])
             rows == IF hits = <<>>
                     THEN <<[order |-> i, tracking_number |-> orders[i],
                             latest_status |-> Null]>>
                     ELSE [j \in 1..Len(hits) |->
                             [order |-> i, tracking_number |-> orders[i],
                              latest_status |-> hits[j].latest_status]]
         IN rows \o MergeLeft(orders, records, i + 1)

\* line 102: data[~data.latest_status.isnull()]
DropNull(rows) == SelectSeq(rows, LAMBDA r : ~r.latest_status.isnull)

\* re.search of a literal: pat occurs somewhere in s
Contains(s, pat) ==
    \E i \in 1..(Len(s) - Len(pat) + 1) : SubSeq(s, i, i + Len(pat) - 1) = pat

\* the alternatives joined by "|" at line 105
FailurePatterns == {S_DeliveryFailure, S_NotFound, S_Exception}

\* a filter that compares the whole status with the three names
DropFailure_WholeMatch(rows) ==
    SelectSeq(rows, LAMBDA r : r.latest_status.text \notin FailurePatterns)

\* lines 103-107: data[~data.latest_status.str.contains("DeliveryFailure|NotFound|Exception")]
DropFailure(rows) ==
    SelectSeq(rows, LAMBDA r : ~\E pat \in FailurePatterns : Contains(r.latest_status.text, pat))

\* the well formed accepted items the records of a finished loop were built from
ReconItems(number) == {it \in Payloads(number, StatusSamples, {AllEvents}) : it.form = "ok"}

Pos(s, x) == CHOOSE i \in 1..Len(s) : s[i] = x

\* the sub-sequences of s
SubSeqs(s) ==
    {t \in UNION {[1..n -> Range(s)] : n \in 0..Len(s)} :
        \A i, j \in 1..Len(t) : i < j => Pos(s, t[i]) < Pos(s, t[j])}

\* the state at line 69 of a run whose loop has ended: the records of the capped
\* tracking numbers that were resolved, in encounter order
ReconInit ==
    /\ pc = "summary"
    /\ data \in UNION {[1..n -> ReconUniverse] : n \in 0..MaxReconRows}
    /\ tracking_numbers \in Dedup(data)
    /\ \E nums \in SubSeqs(Capped(tracking_numbers)) :
          \E items \in [1..Len(nums) -> UNION {ReconItems(n) : n \in Range(data)}] :
                /\ \A i \in 1..Len(nums) : items[i].number = nums[i]
                /\ output = [i \in 1..Len(nums) |-> OrderData(items[i])]
    /\ idx = 1 + Len(Capped(tracking_numbers))
    /\ track_data = EmptyDict
    /\ registered_count = 0
    /\ skipped_count = Len(Capped(tracking_numbers)) - Len(output)
    /\ quota_exceeded_count = 0
    /\ calls = <<>>
    /\ hist = Snapshot(0)
    /\ raised = "none"
    /\ frame = <<>>
    /\ row = Idle
    /\ metrics = Idle

\* lines 69-107: DataFrame(output), the merge, the two filters
Reconcile ==
    /\ pc = "summary"
    /\ IF output = <<>>
       THEN \* DataFrame([]) has no shipping_country column (line 71)
            /\ pc' = "crashed"
            /\ raised' = "AttributeError"
            /\ UNCHANGED frame
       ELSE /\ frame' = DropFailure(DropNull(MergeLeft(data, output, 1)))
            /\ pc' = "reconciled"
            /\ UNCHANGED raised
    /\ UNCHANGED <<data, tracking_numbers, idx, track_data, registered_count,
                   skipped_count, quota_exceeded_count, output, calls, hist, row, metrics>>

SpecRecon == ReconInit /\ [][Reconcile]_vars

-----------------------------------------------------------------------------
(* get_shipping_metrics *)

NaN == [kind |-> "nan"]                       \* a missing cell, NaT, nan, None
Garbage == [kind |-> "text", form |-> "garbage"]
\* the text "aa/bb/yyyy hh:00" (hour 0: "aa/bb/yyyy")
Slash(a, b, y, h) == [kind |-> "text", form |-> "slash", a |-> a, b |-> b, y |-> y, h |-> h]
\* the text "yyyy-mm-dd"
Iso(y, m, d) == [kind |-> "text", form |-> "iso", y |-> y, m |-> m, d |-> d]

\* an int of a metric column
Days(n) == [kind |-> "days", n |-> n]

Timestamp(y, m, d, h) == [kind |-> "timestamp", y |-> y, m |-> m, d |-> d, h |-> h]

IsLeap(y) == (y % 4 = 0 /\ y % 100 # 0) \/ y % 400 = 0

DaysInMonth(y, m) ==
    CASE m = 2 -> IF IsLeap(y) THEN 29 ELSE 28
      [] m \in {4, 6, 9, 11} -> 30
      [] OTHER -> 31

ValidDate(y, m, d) == m \in 1..12 /\ d \in 1..DaysInMonth(y, m)

\* days of the proleptic Gregorian calendar since 1970-01-01
EpochDays(y, m, d) ==
    LET yy == IF m <= 2 THEN y - 1 ELSE y
        era == yy \div 400
        yoe == yy - era * 400
        mp == IF m > 2 THEN m - 3 ELSE m + 9
        doy == (153 * mp + 2) \div 5 + d - 1
        doe == yoe * 365 + yoe \div 4 - yoe \div 100 + doy
    IN era * 146097 + doe - 719468

EpochHours(t) == EpochDays(t.y, t.m, t.d) * 24 + t.h

\* pd.to_datetime(x, dayfirst=...) of one cell: a Timestamp, NaT, or the
\* exception of the default errors="raise".  In a delimited date the first
\* field is the day when dayfirst is set and the second can be a month, and
\* whenever the first cannot be a month.
ToDatetime(x, dayfirst) ==
    CASE x.kind = "nan" -> Return(NaN)
      [] x.form = "garbage" -> Raise("ValueError", 0)
      [] x.form = "iso" ->
            IF ValidDate(x.y, x.m, x.d) THEN Return(Timestamp(x.y, x.m, x.d, 0))
            ELSE Raise("ValueError", 0)
      [] x.form = "slash" ->
            LET swap == x.a > 12 \/ (x.b <= 12 /\ dayfirst)
                month == IF swap THEN x.b ELSE x.a
                day == IF swap THEN x.a ELSE x.b
            IN IF ValidDate(x.y, month, day) THEN Return(Timestamp(x.y, month, day, x.h))
               ELSE Raise("ValueError", 0)

\* (later - earlier).days: the floor of the difference in days, nan with a NaT
DaysBetween(later, earlier) ==
    IF later.kind = "nan" \/ earlier.kind = "nan" THEN NaN
    ELSE Days((EpochHours(later) - EpochHours(earlier)) \div 24)

\* processing_time + shipping_time of lines 376
AddDays(p, q) == IF p.kind = "nan" \/ q.kind = "nan" THEN NaN ELSE Days(p.n + q.n)

\* t.strftime("%Y-%m-%d") if pd.notnull(t) else None
Strftime(t) == IF t.kind = "nan" THEN NaN ELSE Iso(t.y, t.m, t.d)

\* get_shipping_metrics(df_row): the returned tuple, or the exception raised
GetShippingMetrics(df_row) ==
    LET order_created_at == ToDatetime(df_row.order_created_at, TRUE)
        in_transit_at == ToDatetime(df_row.in_transit_at, FALSE)
        delivered_at == ToDatetime(df_row.delivered_at, FALSE)
        info_received_at == ToDatetime(df_row.info_received_at, FALSE)
    IN  IF order_created_at.tag = "raise" THEN order_created_at
        ELSE IF in_transit_at.tag = "raise" THEN in_transit_at
        ELSE IF delivered_at.tag = "raise" THEN delivered_at
        ELSE IF info_received_at.tag = "raise" THEN info_received_at
        ELSE LET processing_time == DaysBetween(in_transit_at.value, order_created_at.value)
                 shipping_time == DaysBetween(delivered_at.value, in_transit_at.value)
             IN Return([processing_time |-> processing_time,
                        shipping_time |-> shipping_time,
                        total_time |-> AddDays(processing_time, shipping_time),
                        order_created_at |-> Strftime(order_created_at.value),
                        info_received_at |-> Strftime(info_received_at.value),
                        in_transit_at |-> Strftime(in_transit_at.value),
                        delivered_at |-> Strftime(delivered_at.value)])

\* cells of the rows handed to get_shipping_metrics
OrderCreatedSamples ==
    {NaN, Garbage}
      \cup {Slash(a, b, y, h) : a \in {1, 28, 31}, b \in {2, 3, 25}, y \in {2023, 2024}, h \in {0, 12}}

InTransitSamples == {NaN, Garbage, Iso(2024, 3, 5), Iso(2024, 3, 1), Iso(2023, 3, 1)}

DeliveredSamples == {NaN, Garbage, Iso(2024, 3, 9), Iso(2024, 3, 1)}

InfoReceivedSamples == {NaN, Garbage, Iso(2024, 3, 2)}

MetricsInit ==
    /\ pc = "metrics"
    /\ row \in [order_created_at : OrderCreatedSamples, in_transit_at : InTransitSamples,
                 delivered_at : DeliveredSamples, info_received_at : InfoReceivedSamples]
    /\ metrics = Idle
    /\ data = <<>>
    /\ tracking_numbers = <<>>
    /\ idx = 1
    /\ track_data = EmptyDict
    /\ registered_count = 0
    /\ skipped_count = 0
    /\ quota_exceeded_count = 0
    /\ output = <<>>
    /\ calls = <<>>
    /\ hist = Snapshot(0)
    /\ raised = "none"
    /\ frame = <<>>

\* line 119: data.apply(get_shipping_metrics, axis=1) on one row; an exception
\* of the call leaves processing()
ApplyMetrics ==
    /\ pc = "metrics"
    /\ metrics' = GetShippingMetrics(row)
    /\ IF metrics'.tag = "raise"
       THEN pc' = "crashed" /\ raised' = metrics'.class
       ELSE pc' = "metrics_done" /\ UNCHANGED raised
    /\ UNCHANGED <<data, tracking_numbers, idx, track_data, registered_count,
                   skipped_count, quota_exceeded_count, output, calls, hist, frame, row>>

SpecMetrics == MetricsInit /\ [][ApplyMetrics]_vars

-----------------------------------------------------------------------------
(* Properties of the batch loop *)

\* the iteration for hist.number has ended (normally or by an exception)
IterationOver == hist.answers # <<>> /\ pc \in {"loop", "summary", "crashed"}

LastAnswer == hist.answers[Len(hist.answers)]

IsRecordFor(d, number) == d.kind = "record" /\ d.tracking_number = number

RecordsFor(number) == {i \in 1..Len(output) : IsRecordFor(output[i], number)}

CallsOf(endpoint, number) == {i \in 1..Len(calls) : calls[i] = <<endpoint, number>>}

CountersUnchanged ==
    /\ registered_count = hist.registered
    /\ skipped_count = hist.skipped
    /\ quota_exceeded_count = hist.quota

Skipped ==
    /\ pc \in {"loop", "summary"}
    /\ skipped_count = hist.skipped + 1
    /\ registered_count = hist.registered
    /\ Len(output) = hist.outlen
    /\ RecordsFor(hist.number) = {}

\* C1: whatever the provider answers at the fetch, the register and the
\* re-fetch, no exception leaves the batch loop: every capped tracking number
\* is visited and the run summary is reached.
C1_BatchNeverAborts ==
    /\ pc # "crashed"
    /\ raised = "none"
    /\ pc = "summary" => idx = Len(Capped(tracking_numbers)) + 1

\* C2: when the first fetch is rejected with a ProviderError (quota or any
\* code other than the two registration codes), no register call is sent
\* for that tracking number.
C2_NoRegisterAfterProviderError ==
    (hist.answers # <<>> /\ hist.answers[1] \in {"quota", "other"})
        => /\ CallsOf("register", hist.number) = {}
           /\ Len(hist.answers) = 1
           /\ IterationOver => Skipped

\* C3: first fetch NeedsRegistration, register accepted, re-fetch accepted:
\* exactly one record for the number is appended, registered_count grows by
\* one, skipped_count and quota_exceeded_count keep their values.
C3_RegisteredThenAccepted ==
    hist.answers = <<"need_register", "accepted", "accepted">> =>
        /\ pc \in {"loop", "summary"}
        /\ Len(output) = hist.outlen + 1
        /\ IsRecordFor(output[Len(output)], hist.number)
        /\ Cardinality(RecordsFor(hist.number)) = 1
        /\ registered_count = hist.registered + 1
        /\ skipped_count = hist.skipped
        /\ quota_exceeded_count = hist.quota

C3_Witness ==
    /\ hist.answers = <<"need_register", "accepted", "accepted">>
    /\ registered_count = 2

\* C4: when every provider call of a resolution is rejected with the quota
\* code, skipped_count and quota_exceeded_count each grow by one,
\* registered_count keeps its value and no record of the number is in the output.
C4_AllQuota ==
    (IterationOver /\ \A i \in 1..Len(hist.answers) : hist.answers[i] = "quota") =>
        /\ Skipped
        /\ quota_exceeded_count = hist.quota + 1

C4_Witness ==
    /\ IterationOver
    /\ hist.answers = <<"quota", "quota">>
    /\ skipped_count = 2

\* C5: a tracking number whose fetch is accepted is resolved by that single
\* call: no register call, its record appended, the three counters unchanged;
\* while every number so far was resolved that way registered_count is 0.
C5_AcceptedFirst ==
    /\ (hist.answers # <<>> /\ hist.answers[1] = "accepted") =>
          /\ hist.answers = <<"accepted">>
          /\ pc \in {"loop", "summary"}
          /\ Cardinality(CallsOf("gettrackinfo", hist.number)) = 1
          /\ CallsOf("register", hist.number) = {}
          /\ Len(output) = hist.outlen + 1
          /\ IsRecordFor(output[Len(output)], hist.number)
          /\ CountersUnchanged
    /\ (pc \in {"loop", "summary"} /\ Len(calls) = idx - 1 /\ Len(output) = idx - 1) =>
          registered_count = 0

C5_Witness ==
    /\ hist.answers = <<"accepted">>
    /\ pc = "summary"
    /\ Len(output) = BatchCap
    /\ Len(calls) = BatchCap

\* C6: at most BatchCap distinct tracking numbers are resolved; with more
\* unique numbers than the cap exactly BatchCap are resolved, no call is made
\* for the others, and no number is resolved twice.
Resolved == {calls[i][2] : i \in 1..Len(calls)}

C6_BatchCap ==
    /\ Cardinality(Resolved) <= BatchCap
    /\ Resolved \subseteq Range(Capped(tracking_numbers))
    /\ \A i, j \in 1..Len(calls) :
          (i < j /\ calls[i][2] = calls[j][2]) =>
              \A k \in i..j : calls[k][2] = calls[i][2]
    /\ \A n \in Resolved : Cardinality(CallsOf("gettrackinfo", n)) <= 2
                             /\ Cardinality(CallsOf("register", n)) <= 1
    /\ (pc \in {"summary", "crashed"} /\ Len(tracking_numbers) > BatchCap) =>
          Cardinality(Resolved) = BatchCap

\* C10: a resolution that entered the register step and ends with a
\* ProviderError (from the register call or from the re-fetch) ends Failed:
\* skipped_count + 1, quota_exceeded_count + 1 exactly for the quota code,
\* registered_count unchanged, no record, no further call for the number.
C10_RegisterStepFails ==
    (IterationOver /\ Len(hist.answers) >= 2 /\ LastAnswer \in {"quota", "other"}) =>
        /\ Skipped
        /\ quota_exceeded_count = hist.quota + (IF LastAnswer = "quota" THEN 1 ELSE 0)

\* the loop stands between two iterations, or has just ended
IterationBoundary == pc \in {"loop", "summary"}

\* the tracking numbers whose iteration has ended
Processed == {tracking_numbers[i] : i \in 1..(idx - 1)}

\* the records _build_order_data builds from a well formed accepted item for number
AcceptedRecords(number) == {OrderData(it) : it \in {p \in BatchPayloads(number) : p.form = "ok"}}

\* C11: at every iteration boundary each tracking number processed so far
\* has exactly one terminal outcome, its record appended or skipped_count
\* incremented: len(output) + skipped_count is the number processed,
\* quota_exceeded_count <= skipped_count, registered_count <= len(output),
\* and every appended record was built from an accepted payload for its own
\* number, never the empty dict of __init__.
C11_CounterConservation ==
    IterationBoundary =>
        /\ Len(output) + skipped_count = idx - 1
        /\ Cardinality(Processed) = idx - 1
        /\ quota_exceeded_count <= skipped_count
        /\ registered_count <= Len(output)
        /\ \A k \in 1..Len(output) :
              /\ output[k] # EmptyDict
              /\ output[k].kind = "record"
              /\ output[k].tracking_number \in Processed
              /\ output[k] \in AcceptedRecords(output[k].tracking_number)
        /\ \A n \in Processed : Cardinality(RecordsFor(n)) <= 1
        /\ Cardinality({n \in Processed : RecordsFor(n) = {}}) = skipped_count

C11_Witness ==
    /\ pc = "summary"
    /\ idx = 3
    /\ Len(output) = 1
    /\ registered_count = 1
    /\ skipped_count = 1
    /\ quota_exceeded_count = 0

-----------------------------------------------------------------------------
(* Properties of the reconciled table *)

RecordOf(r) == {j \in 1..Len(output) : output[j].tracking_number = data[r.order]}

OrdersWithStatus(st) ==
    {i \in 1..Len(data) : \E j \in 1..Len(output) :
        output[j].tracking_number = data[i] /\ output[j].latest_status = st}

FrameOrders == {frame[k].order : k \in 1..Len(frame)}

\* C7: every row of the reconciled table is an order whose tracking number
\* has a record with a non-null latest_status containing none of
\* "DeliveryFailure", "NotFound", "Exception"; unmatched orders are dropped,
\* "DeliveryFailure_ReturnedToSender" is excluded, "InTransit" is kept.
C7_ReconciledRows ==
    pc = "reconciled" =>
        /\ \A k \in 1..Len(frame) :
              /\ RecordOf(frame[k]) # {}
              /\ \A j \in RecordOf(frame[k]) :
                    /\ output[j].latest_status = frame[k].latest_status
                    /\ ~output[j].latest_status.isnull
                    /\ \A pat \in FailurePatterns :
                          ~Contains(output[j].latest_status.text, pat)
        /\ \A i \in 1..Len(data) :
              (\A j \in 1..Len(output) : output[j].tracking_number # data[i])
                  => i \notin FrameOrders
        /\ OrdersWithStatus(Text(S_DeliveryFailure_ReturnedToSender)) \cap FrameOrders = {}
        /\ OrdersWithStatus(Text(S_Carrier_NotFound)) \cap FrameOrders = {}
        /\ OrdersWithStatus(Null) \cap FrameOrders = {}
        /\ OrdersWithStatus(Text(S_InTransit)) \subseteq FrameOrders
        /\ OrdersWithStatus(Text(S_exception)) \subseteq FrameOrders

C7_Witness ==
    /\ pc = "reconciled"
    /\ Len(data) = 2
    /\ OrdersWithStatus(Text(S_DeliveryFailure_ReturnedToSender)) = {1}
    /\ OrdersWithStatus(Text(S_InTransit)) = {2}
    /\ FrameOrders = {2}

-----------------------------------------------------------------------------
(* Properties of get_shipping_metrics *)

\* the text is a date when its first field is read as the day
DayFirstDate(x) == x.kind = "text" /\ x.form = "slash" /\ ValidDate(x.y, x.b, x.a)

IsoDate(x) == x.kind = "text" /\ x.form = "iso" /\ ValidDate(x.y, x.m, x.d)

Parseable(x) == DayFirstDate(x) \/ IsoDate(x)

\* absent, or not a date
Bad(x) == x.kind = "nan" \/ ~Parseable(x)

IsNull(v) == v.kind = "nan"

\* the instant a text denotes, in hours, its first field read as the day
HoursOf(x) ==
    IF x.form = "iso" THEN EpochDays(x.y, x.m, x.d) * 24
    ELSE EpochDays(x.y, x.b, x.a) * 24 + x.h

\* n whole days lie between the instants a and b
WholeDays(t, a, b) == t.kind = "days" /\ a + 24 * t.n <= b /\ b < a + 24 * (t.n + 1)

Called == pc \in {"metrics_done", "crashed"} /\ metrics # Idle

MetricsAsClaimed ==
    /\ metrics.tag = "return"
    /\ WholeDays(metrics.value.processing_time,
                 HoursOf(row.order_created_at), HoursOf(row.in_transit_at))
    /\ WholeDays(metrics.value.shipping_time,
                 HoursOf(row.in_transit_at), HoursOf(row.delivered_at))
    /\ metrics.value.total_time =
          Days(metrics.value.processing_time.n + metrics.value.shipping_time.n)
    /\ metrics.value.order_created_at =
          Iso(row.order_created_at.y, row.order_created_at.b, row.order_created_at.a)
    /\ (/\ row.order_created_at = Slash(1, 3, 2024, 0)
        /\ row.in_transit_at = Iso(2024, 3, 5)
        /\ row.delivered_at = Iso(2024, 3, 9))
          => /\ metrics.value.processing_time = Days(4)
             /\ metrics.value.shipping_time = Days(4)
             /\ metrics.value.total_time = Days(8)
    /\ (row.order_created_at = Slash(28, 2, 2024, 0) /\ row.in_transit_at = Iso(2024, 3, 1))
          => metrics.value.processing_time = Days(2)
    /\ (row.order_created_at = Slash(28, 2, 2023, 0) /\ row.in_transit_at = Iso(2023, 3, 1))
          => metrics.value.processing_time = Days(1)

\* C8: with order_created_at (day first), in_transit_at and delivered_at
\* present and parseable, processing_time and shipping_time are the whole
\* days between them and total_time is their sum; "01/03/2024",
\* "2024-03-05", "2024-03-09" give 4, 4 and 8.
C8_Metrics ==
    (Called /\ DayFirstDate(row.order_created_at) /\ IsoDate(row.in_transit_at)
        /\ IsoDate(row.delivered_at)) => MetricsAsClaimed

\* the same for the rows whose info_received_at is absent or a date: the only
\* rows of C8 the call does not raise on
C8_MetricsReadableInfoReceived ==
    (Called /\ DayFirstDate(row.order_created_at) /\ IsoDate(row.in_transit_at)
        /\ IsoDate(row.delivered_at)
        /\ (IsNull(row.info_received_at) \/ Parseable(row.info_received_at)))
        => MetricsAsClaimed

C8_Example ==
    /\ pc = "metrics_done"
    /\ row.order_created_at = Slash(1, 3, 2024, 0)
    /\ row.in_transit_at = Iso(2024, 3, 5)
    /\ row.delivered_at = Iso(2024, 3, 9)
    /\ metrics.value.total_time = Days(8)

\* the part of C6 that does not depend on the loop running to its end
C6_CapOnly ==
    /\ Cardinality(Resolved) <= BatchCap
    /\ Resolved \subseteq Range(Capped(tracking_numbers))
    /\ (pc = "summary" /\ Len(tracking_numbers) > BatchCap) =>
          Cardinality(Resolved) = BatchCap

\* C9: an absent or unparseable timestamp never raises: the call returns,
\* exactly the metrics that depend on such a timestamp are null (a missing
\* delivered_at leaves processing_time computed), and the timestamp is
\* re-emitted as null.
C9_NullPropagation ==
    Called =>
        /\ metrics.tag = "return"
        /\ IsNull(metrics.value.processing_time)
              <=> (Bad(row.order_created_at) \/ Bad(row.in_transit_at))
        /\ IsNull(metrics.value.shipping_time)
              <=> (Bad(row.in_transit_at) \/ Bad(row.delivered_at))
        /\ IsNull(metrics.value.total_time)
              <=> (Bad(row.order_created_at) \/ Bad(row.in_transit_at)
                      \/ Bad(row.delivered_at))
        /\ Bad(row.order_created_at) => IsNull(metrics.value.order_created_at)
        /\ Bad(row.in_transit_at) => IsNull(metrics.value.in_transit_at)
        /\ Bad(row.delivered_at) => IsNull(metrics.value.delivered_at)
        /\ Bad(row.info_received_at) => IsNull(metrics.value.info_received_at)

====
